---- MODULE Spec2Model ----
(***************************************************************************)
(* Diff-Sheriff: the /review handler of the worker and the pure functions  *)
(* of its review-extraction pipeline.                                      *)
(*                                                                         *)
(* The repository holds three revisions of the worker source:              *)
(*   "index_ts"  src/src/index.ts      (no report, no retry)               *)
(*   "part_000"  src/unnamed/part_000  (report + inline comments)          *)
(*   "readme"    src/README.md:266-834 (trivial bypass, noise filter,      *)
(*                                      single retry)                      *)
(* The variable impl says which revision handles the request.              *)
(*                                                                         *)
(* Representation of JavaScript values                                     *)
(*   undefined  [t |-> "absent"]          null    [t |-> "null"]           *)
(*   number     [t |-> "num", v, int]     string  [t |-> "str", v]         *)
(*   array      [t |-> "arr", v |-> seq]  object  [t |-> "obj", v |-> rec] *)
(* The v of a string depends on what the code does with the string:        *)
(*   diff                 run-length encoded characters (Seq of [c, n])    *)
(*   Authorization, sha   sequence of characters                          *)
(*   title, rationale ... sequence of words (whitespace separated)        *)
(*   model reply text     sequence of tokens (see extractJson)            *)
(***************************************************************************)
EXTENDS Integers, Sequences, FiniteSets, TLC

(***************************************************************************)
(* Program constants and bounds of the model                               *)
(***************************************************************************)
MAX_DIFF_LENGTH == 60000

\* longest raw findings array in an enumerated model reply
MaxFindings == 2
\* most character runs in an enumerated diff (SpecPre)
MaxRuns == 3
\* how often the client submits the same request
MaxSubmits == 2

(***************************************************************************)
(* JavaScript values                                                       *)
(***************************************************************************)
Absent == [t |-> "absent"]
JNull == [t |-> "null"]
JNum(n) == [t |-> "num", v |-> n, int |-> TRUE]
\* a number that is not an integer, n < value < n + 1
JFrac(n) == [t |-> "num", v |-> n, int |-> FALSE]
JStr(s) == [t |-> "str", v |-> s]
JArr(a) == [t |-> "arr", v |-> a]
JObj(r) == [t |-> "obj", v |-> r]

\* "k" in obj
HasKey(o, k) == k \in DOMAIN o.v
\* obj.k  (undefined when the key is missing; an array has none of the keys)
Get(o, k) == IF o.t = "obj" /\ HasKey(o, k) THEN o.v[k] ELSE Absent
IsString(x) == x.t = "str"
\* typeof x === "string" && x   (a non-empty string)
IsTruthyStr(x) == x.t = "str" /\ x.v # <<>>

Ok(v) == [ok |-> TRUE, v |-> v]
Err(m) == [ok |-> FALSE, err |-> m]

(***************************************************************************)
(* Character sequences (Authorization header, sha)                         *)
(***************************************************************************)
CStartsWith(s, p) == Len(s) >= Len(p) /\ SubSeq(s, 1, Len(p)) = p
\* s.slice(k)
CSliceFrom(s, k) == SubSeq(s, k + 1, Len(s))
\* s.slice(0, k)
CSliceTo(s, k) == SubSeq(s, 1, IF Len(s) < k THEN Len(s) ELSE k)

(***************************************************************************)
(* Run-length encoded text (the diff): a sequence of runs [c, n], n >= 1   *)
(***************************************************************************)
NL == "\n"
WhiteSpace == {" ", "\t", "\n", "\r"}

Run(c, n) == [c |-> c, n |-> n]

RECURSIVE TLen(_)
TLen(t) == IF t = <<>> THEN 0 ELSE t[1].n + TLen(Tail(t))

\* t.slice(0, k)
RECURSIVE TSliceTo(_, _)
TSliceTo(t, k) ==
  IF t = <<>> \/ k <= 0 THEN <<>>
  ELSE IF t[1].n <= k THEN <<t[1]>> \o TSliceTo(Tail(t), k - t[1].n)
  ELSE <<Run(t[1].c, k)>>

\* t.slice(1)
TDropFirst(t) ==
  IF t = <<>> THEN <<>>
  ELSE IF t[1].n = 1 THEN Tail(t)
  ELSE <<Run(t[1].c, t[1].n - 1)>> \o Tail(t)

\* the i-th character (1-based), "" past the end
RECURSIVE TCharAt(_, _)
TCharAt(t, i) ==
  IF t = <<>> THEN ""
  ELSE IF i <= t[1].n THEN t[1].c
  ELSE TCharAt(Tail(t), i - t[1].n)

\* t.startsWith(p), p a sequence of characters
TStartsWith(t, p) == \A i \in 1..Len(p) : TCharAt(t, i) = p[i]

RECURSIVE TTrimStart(_)
TTrimStart(t) ==
  IF t # <<>> /\ t[1].c \in WhiteSpace THEN TTrimStart(Tail(t)) ELSE t

RECURSIVE TTrimEnd(_)
TTrimEnd(t) ==
  IF t # <<>> /\ t[Len(t)].c \in WhiteSpace
  THEN TTrimEnd(SubSeq(t, 1, Len(t) - 1)) ELSE t

\* t.trim()
TTrim(t) == TTrimEnd(TTrimStart(t))

\* t.split("\n"): cur is the line being read, out the lines read
RECURSIVE TSplitAcc(_, _, _)
TSplitAcc(t, cur, out) ==
  IF t = <<>> THEN Append(out, cur)
  ELSE IF t[1].c = NL
       THEN TSplitAcc(Tail(t), <<>>,
                      Append(out, cur) \o [i \in 1..(t[1].n - 1) |-> <<>>])
       ELSE TSplitAcc(Tail(t), Append(cur, t[1]), out)

TSplitLines(t) == TSplitAcc(t, <<>>, <<>>)

(***************************************************************************)
(* Diff pre-processing                                                     *)
(***************************************************************************)
\* /^\s*$/.test(content)
AllWhiteSpace(t) == \A i \in 1..Len(t) : t[i].c \in WhiteSpace

\* LineIsSubstantive without the skip of the "+++" and "---" file headers
LineIsSubstantive_CountsHeaders(line) ==
  IF ~TStartsWith(line, <<"+">>) /\ ~TStartsWith(line, <<"-">>) THEN FALSE
  ELSE LET content == TTrim(TDropFirst(line)) IN
    IF content = <<>> THEN FALSE
    ELSE IF \/ TStartsWith(content, <<"/", "/">>)
            \/ TStartsWith(content, <<"#">>)
            \/ TStartsWith(content, <<"*">>)
            \/ TStartsWith(content, <<"/", "*">>)
            \/ TStartsWith(content, <<"*", "/">>)
    THEN FALSE
    ELSE TRUE

\* one pass of the loop body: TRUE when the line sets hasSubstantiveChange
LineIsSubstantive(line) ==
  IF ~TStartsWith(line, <<"+">>) /\ ~TStartsWith(line, <<"-">>) THEN FALSE
  ELSE IF TStartsWith(line, <<"+", "+", "+">>) \/ TStartsWith(line, <<"-", "-", "-">>)
  THEN FALSE
  ELSE LET content == TTrim(TDropFirst(line)) IN
    IF content = <<>> THEN FALSE
    ELSE IF \/ TStartsWith(content, <<"/", "/">>)
            \/ TStartsWith(content, <<"#">>)
            \/ TStartsWith(content, <<"*">>)
            \/ TStartsWith(content, <<"/", "*">>)
            \/ TStartsWith(content, <<"*", "/">>)
    THEN FALSE
    ELSE IF AllWhiteSpace(content) THEN FALSE
    ELSE TRUE

\* the for loop with its break: hasSubstantiveChange after scanning from line i
RECURSIVE ScanLines(_, _)
ScanLines(lines, i) ==
  IF i > Len(lines) THEN FALSE
  ELSE IF LineIsSubstantive(lines[i]) THEN TRUE
  ELSE ScanLines(lines, i + 1)

isTrivialDiff(diff) == ~ScanLines(TSplitLines(diff), 1)

\* TruncateDiff with >= for >
TruncateDiff_OffByOne(diff) ==
  IF TLen(diff) >= MAX_DIFF_LENGTH
  THEN [diff |-> TSliceTo(diff, MAX_DIFF_LENGTH), truncatedDiff |-> TRUE]
  ELSE [diff |-> diff, truncatedDiff |-> FALSE]

\* the truncation step of handleReview: [diff, truncatedDiff]
TruncateDiff(diff) ==
  IF TLen(diff) > MAX_DIFF_LENGTH
  THEN [diff |-> TSliceTo(diff, MAX_DIFF_LENGTH), truncatedDiff |-> TRUE]
  ELSE [diff |-> diff, truncatedDiff |-> FALSE]

(***************************************************************************)
(* Word sequences (title, rationale, suggestion, summary)                  *)
(***************************************************************************)
\* String.prototype.toLowerCase on the words the model uses
Lower(w) ==
  CASE w = "PR" -> "pr"
    [] w = "Pr" -> "pr"
    [] w = "Title" -> "title"
    [] w = "Missing" -> "missing"
    [] w = "No" -> "no"
    [] w = "Description" -> "description"
    [] w = "Provide" -> "provide"
    [] OTHER -> w

LowerWords(ws) == [i \in 1..Len(ws) |-> Lower(ws[i])]

(***************************************************************************)
(* Model reply text: a sequence of tokens.  Ch(c) is one character that    *)
(* matters to the brace scan ("{", "}", " " for white space, "p" for any   *)
(* other character); Members(o) stands for the member list of one JSON     *)
(* object, "k":v,..., whose parse is o.                                    *)
(***************************************************************************)
Ch(c) == [k |-> "ch", c |-> c]
Members(o) == [k |-> "members", o |-> o]
LB == Ch("{")
RB == Ch("}")

\* text.indexOf(c) + 1   (0: not found)
RECURSIVE IndexFrom(_, _, _)
IndexFrom(text, tok, i) ==
  IF i > Len(text) THEN 0
  ELSE IF text[i] = tok THEN i
  ELSE IndexFrom(text, tok, i + 1)

IndexOf(text, tok) == IndexFrom(text, tok, 1)

\* text.lastIndexOf(c) + 1   (0: not found)
RECURSIVE LastIndexFrom(_, _, _)
LastIndexFrom(text, tok, i) ==
  IF i < 1 THEN 0
  ELSE IF text[i] = tok THEN i
  ELSE LastIndexFrom(text, tok, i - 1)

LastIndexOf(text, tok) == LastIndexFrom(text, tok, Len(text))

\* JSON.parse of a token sequence: white space is skipped; the only values
\* the token alphabet can spell are the objects {} and { members }
JsonParse(toks) ==
  LET inner == SelectSeq(SubSeq(toks, 2, Len(toks) - 1), LAMBDA x : x # Ch(" "))
      outer == SelectSeq(toks, LAMBDA x : x # Ch(" "))
  IN IF /\ Len(outer) >= 2
        /\ toks[1] = LB
        /\ toks[Len(toks)] = RB
        /\ \/ inner = <<>>
           \/ Len(inner) = 1 /\ inner[1].k = "members"
     THEN Ok(JObj(IF inner = <<>>
                  THEN [summary |-> Absent, findings |-> Absent,
                        testingNotes |-> Absent, recommendation |-> Absent]
                  ELSE inner[1].o))
     ELSE Err("SyntaxError")

\* extractJson that starts at the last '{'
extractJson_LastOpenBrace(text) ==
  LET firstBrace == LastIndexOf(text, LB)
      lastBrace == LastIndexOf(text, RB)
  IN IF firstBrace = 0 \/ lastBrace = 0 \/ lastBrace < firstBrace
     THEN Err("No JSON object found in response")
     ELSE JsonParse(SubSeq(text, firstBrace, lastBrace))

extractJson(text) ==
  LET firstBrace == IndexOf(text, LB)
      lastBrace == LastIndexOf(text, RB)
  IN IF firstBrace = 0 \/ lastBrace = 0 \/ lastBrace < firstBrace
     THEN Err("No JSON object found in response")
     ELSE JsonParse(SubSeq(text, firstBrace, lastBrace))

(***************************************************************************)
(* Validation                                                              *)
(***************************************************************************)
validSeverities == {"high", "medium", "low", "nit"}

\* Finding | null : Ok(finding) or Err("null")
validateFinding(f) ==
  IF f.t # "obj" THEN Err("null")
  ELSE LET severity == Get(f, "severity")
           title == Get(f, "title")
           rationale == Get(f, "rationale")
           suggestion == Get(f, "suggestion")
           file == Get(f, "file")
           line == Get(f, "line")
       IN IF ~IsString(severity) \/ severity.v \notin validSeverities THEN Err("null")
          ELSE IF ~IsString(title) \/ title.v = <<>> THEN Err("null")
          ELSE IF ~IsString(rationale) \/ rationale.v = <<>> THEN Err("null")
          ELSE Ok([severity |-> severity.v,
                   title |-> title.v,
                   rationale |-> rationale.v,
                   suggestion |-> IF IsTruthyStr(suggestion) THEN suggestion ELSE Absent,
                   file |-> IF IsTruthyStr(file) THEN file ELSE Absent,
                   line |-> IF line.t = "num" /\ line.int THEN line ELSE Absent])

\* ValidFindingsFrom that gives up at the first element validation rejects
RECURSIVE ValidFindingsFrom_StopsAtInvalid(_, _)
ValidFindingsFrom_StopsAtInvalid(arr, i) ==
  IF i > Len(arr) THEN <<>>
  ELSE LET validated == validateFinding(arr[i]) IN
       IF validated.ok
       THEN <<validated.v>> \o ValidFindingsFrom_StopsAtInvalid(arr, i + 1)
       ELSE <<>>

RECURSIVE ValidFindingsFrom(_, _)
ValidFindingsFrom(arr, i) ==
  IF i > Len(arr) THEN <<>>
  ELSE LET validated == validateFinding(arr[i]) IN
       (IF validated.ok THEN <<validated.v>> ELSE <<>>) \o ValidFindingsFrom(arr, i + 1)

RECURSIVE TestingNotesFrom(_, _)
TestingNotesFrom(arr, i) ==
  IF i > Len(arr) THEN <<>>
  ELSE (IF IsTruthyStr(arr[i]) THEN <<arr[i].v>> ELSE <<>>) \o TestingNotesFrom(arr, i + 1)

\* validateAiResponse that tests the summary by truthiness
validateAiResponse_RejectsEmptySummary(parsed) ==
  IF parsed.t \notin {"obj", "arr"} THEN Err("AI response is not an object")
  ELSE LET summary == Get(parsed, "summary")
           findings == Get(parsed, "findings")
           testingNotes == Get(parsed, "testingNotes")
       IN IF ~IsTruthyStr(summary) THEN Err("AI response missing summary")
          ELSE Ok([summary |-> summary.v,
                   findings |-> IF findings.t = "arr"
                                THEN ValidFindingsFrom(findings.v, 1) ELSE <<>>,
                   testingNotes |-> IF testingNotes.t = "arr"
                                    THEN TestingNotesFrom(testingNotes.v, 1) ELSE <<>>])

\* src/README.md and src/unnamed/part_000 (the revision of src/src/index.ts
\* returns no testingNotes)
validateAiResponse(parsed) ==
  IF parsed.t \notin {"obj", "arr"} THEN Err("AI response is not an object")
  ELSE LET summary == Get(parsed, "summary")
           findings == Get(parsed, "findings")
           testingNotes == Get(parsed, "testingNotes")
       IN IF ~IsString(summary) THEN Err("AI response missing summary")
          ELSE Ok([summary |-> summary.v,
                   findings |-> IF findings.t = "arr"
                                THEN ValidFindingsFrom(findings.v, 1) ELSE <<>>,
                   testingNotes |-> IF testingNotes.t = "arr"
                                    THEN TestingNotesFrom(testingNotes.v, 1) ELSE <<>>])

(***************************************************************************)
(* Noise filter (src/README.md only)                                       *)
(***************************************************************************)
MetaNouns == {"title", "description", "context"}
\* each pattern is the set of word sequences it matches; a word sequence is
\* given as a sequence of sets of admissible (lower-case) words
METADATA_NOISE_PATTERNS == <<
  {<<{"pr"}, {"title"}>>},
  {<<{"pr"}, {"description"}>>},
  {<<{"missing"}, MetaNouns>>},
  {<<{"lack"}, {"of"}, {"context", "description"}>>},
  {<<{"empty"}, {"title", "description"}>>},
  {<<{"no"}, MetaNouns>>},
  {<<{"provide"}, {"title", "description"}>>,
   <<{"provide"}, {"a"}, {"title", "description"}>>,
   <<{"provide"}, {"clear"}, {"title", "description"}>>,
   <<{"provide"}, {"a"}, {"clear"}, {"title", "description"}>>} >>

\* the words ws[i], ws[i+1], ... spell alt
MatchesAt(ws, i, alt) ==
  /\ i + Len(alt) - 1 <= Len(ws)
  /\ \A j \in 1..Len(alt) : ws[i + j - 1] \in alt[j]

\* pattern.test(text)
PatternTest(pattern, ws) ==
  \E alt \in pattern : \E i \in 1..Len(ws) : MatchesAt(ws, i, alt)

\* isMetadataNoiseFinding without toLowerCase and without the i flag
isMetadataNoiseFinding_CaseSensitive(finding) ==
  LET text == finding.title \o finding.rationale \o
              (IF IsTruthyStr(finding.suggestion) THEN finding.suggestion.v ELSE <<>>)
  IN \E p \in 1..Len(METADATA_NOISE_PATTERNS) :
       PatternTest(METADATA_NOISE_PATTERNS[p], text)

isMetadataNoiseFinding(finding) ==
  LET text == LowerWords(finding.title \o finding.rationale \o
                         (IF IsTruthyStr(finding.suggestion)
                          THEN finding.suggestion.v ELSE <<>>))
  IN \E p \in 1..Len(METADATA_NOISE_PATTERNS) :
       PatternTest(METADATA_NOISE_PATTERNS[p], text)

filterNonsensicalFindings(findings) ==
  SelectSeq(findings, LAMBDA f : ~isMetadataNoiseFinding(f))

(***************************************************************************)
(* Recommendation                                                          *)
(***************************************************************************)
\* deriveRecommendation with the two tests in the wrong order
deriveRecommendation_MediumFirst(findings) ==
  LET hasHigh == \E i \in 1..Len(findings) : findings[i].severity = "high"
      hasMedium == \E i \in 1..Len(findings) : findings[i].severity = "medium"
  IN IF hasMedium THEN "approve_with_changes"
     ELSE IF hasHigh THEN "request_changes"
     ELSE "approve"

deriveRecommendation(findings) ==
  LET hasHigh == \E i \in 1..Len(findings) : findings[i].severity = "high"
      hasMedium == \E i \in 1..Len(findings) : findings[i].severity = "medium"
  IN IF hasHigh THEN "request_changes"
     ELSE IF hasMedium THEN "approve_with_changes"
     ELSE "approve"

(***************************************************************************)
(* Report rendering.  The report is the sequence of its lines; a line is a *)
(* record naming the fixed text it carries and the values spliced into it. *)
(***************************************************************************)
Blank == [k |-> "blank"]

\* src/README.md
formatFindingBullet(f) ==
  [k |-> "bullet",
   title |-> f.title,
   file |-> IF IsTruthyStr(f.file) THEN f.file ELSE Absent,
   line |-> IF IsTruthyStr(f.file) /\ f.line.t = "num" /\ f.line.v # 0
            THEN f.line ELSE Absent,
   rationale |-> f.rationale,
   suggestion |-> IF IsTruthyStr(f.suggestion) THEN f.suggestion ELSE Absent]

\* src/unnamed/part_000: the same parts, the location in back quotes
formatFindingBulletV2(f) ==
  LET loc == IF IsTruthyStr(f.file)
             THEN [file |-> f.file,
                   line |-> IF f.line.t = "num" /\ f.line.v # 0 THEN f.line ELSE Absent]
             ELSE [file |-> Absent, line |-> Absent]
  IN [k |-> "bullet",
      title |-> f.title,
      file |-> loc.file,
      line |-> loc.line,
      rationale |-> f.rationale,
      suggestion |-> IF IsTruthyStr(f.suggestion) THEN f.suggestion ELSE Absent]

BySeverity(findings, sevs) == SelectSeq(findings, LAMBDA f : f.severity \in sevs)

\* renderReviewMarkdown whose last bucket holds the low findings only
renderReviewMarkdown_DropsNit(summary, findings, testingNotes, recommendation, sha) ==
  LET high == BySeverity(findings, {"high"})
      medium == BySeverity(findings, {"medium"})
      lowAndNit == BySeverity(findings, {"low"})
      Bucket(name, fs) ==
        IF Len(fs) > 0
        THEN <<[k |-> "bucket", name |-> name]>>
             \o [i \in 1..Len(fs) |-> formatFindingBullet(fs[i])] \o <<Blank>>
        ELSE <<>>
      commitRef == IF IsTruthyStr(sha) THEN JStr(CSliceTo(sha.v, 7)) ELSE JStr(<<"N", "/", "A">>)
  IN <<[k |-> "marker"], [k |-> "heading", emoji |-> "check"], Blank,
       [k |-> "summaryHeading"], [k |-> "summary", v |-> summary], Blank>>
     \o Bucket("Must Fix (Blocking)", high)
     \o Bucket("Should Fix (Recommended)", medium)
     \o Bucket("Nice to Have (Optional)", lowAndNit)
     \o (IF Len(testingNotes) > 0
         THEN <<[k |-> "bucket", name |-> "Testing Notes"]>>
              \o [i \in 1..Len(testingNotes) |-> [k |-> "note", v |-> testingNotes[i]]]
              \o <<Blank>>
         ELSE <<>>)
     \o <<[k |-> "recHeading"], [k |-> "recText", v |-> recommendation], Blank,
          [k |-> "footer", commit |-> commitRef]>>

\* src/README.md
renderReviewMarkdown(summary, findings, testingNotes, recommendation, sha) ==
  LET high == BySeverity(findings, {"high"})
      medium == BySeverity(findings, {"medium"})
      lowAndNit == BySeverity(findings, {"low", "nit"})
      Bucket(name, fs) ==
        IF Len(fs) > 0
        THEN <<[k |-> "bucket", name |-> name]>>
             \o [i \in 1..Len(fs) |-> formatFindingBullet(fs[i])] \o <<Blank>>
        ELSE <<>>
      commitRef == IF IsTruthyStr(sha) THEN JStr(CSliceTo(sha.v, 7)) ELSE JStr(<<"N", "/", "A">>)
  IN <<[k |-> "marker"], [k |-> "heading", emoji |-> "check"], Blank,
       [k |-> "summaryHeading"], [k |-> "summary", v |-> summary], Blank>>
     \o Bucket("Must Fix (Blocking)", high)
     \o Bucket("Should Fix (Recommended)", medium)
     \o Bucket("Nice to Have (Optional)", lowAndNit)
     \o (IF Len(testingNotes) > 0
         THEN <<[k |-> "bucket", name |-> "Testing Notes"]>>
              \o [i \in 1..Len(testingNotes) |-> [k |-> "note", v |-> testingNotes[i]]]
              \o <<Blank>>
         ELSE <<>>)
     \o <<[k |-> "recHeading"], [k |-> "recText", v |-> recommendation], Blank,
          [k |-> "footer", commit |-> commitRef]>>

\* src/unnamed/part_000
renderReviewMarkdownV2(summary, findings, testingNotes, recommendation, sha) ==
  LET recEmoji == IF recommendation = "approve" THEN "check"
                  ELSE IF recommendation = "approve_with_changes" THEN "warning"
                  ELSE "cross"
      high == BySeverity(findings, {"high"})
      medium == BySeverity(findings, {"medium"})
      lowAndNit == BySeverity(findings, {"low", "nit"})
      Bucket(name, fs) ==
        IF Len(fs) > 0
        THEN <<[k |-> "bucket", name |-> name]>>
             \o [i \in 1..Len(fs) |-> formatFindingBulletV2(fs[i])] \o <<Blank>>
        ELSE <<>>
      commitRef == IF IsTruthyStr(sha) THEN JStr(CSliceTo(sha.v, 7)) ELSE JStr(<<>>)
  IN <<[k |-> "marker"], [k |-> "heading", emoji |-> recEmoji], Blank,
       [k |-> "summary", v |-> summary], Blank>>
     \o Bucket("Blocking", high)
     \o Bucket("Should Fix", medium)
     \o Bucket("Optional", lowAndNit)
     \o (IF Len(testingNotes) > 0
         THEN <<[k |-> "bucket", name |-> "Test"]>>
              \o [i \in 1..Len(testingNotes) |-> [k |-> "note", v |-> testingNotes[i]]]
              \o <<Blank>>
         ELSE <<>>)
     \o <<[k |-> "footer", commit |-> commitRef]>>

\* src/unnamed/part_000
RECURSIVE InlineCommentsFrom(_, _)
InlineCommentsFrom(findings, i) ==
  IF i > Len(findings) THEN <<>>
  ELSE LET f == findings[i] IN
    (IF ~IsTruthyStr(f.file) \/ ~(f.line.t = "num" /\ f.line.v # 0) THEN <<>>
     ELSE <<[path |-> f.file.v,
             line |-> f.line.v,
             body |-> [severityEmoji |-> IF f.severity = "high" THEN "siren"
                                         ELSE IF f.severity = "medium" THEN "warning"
                                         ELSE "bulb",
                       title |-> f.title,
                       rationale |-> f.rationale,
                       suggestion |-> IF IsTruthyStr(f.suggestion)
                                      THEN f.suggestion ELSE Absent]]>>)
    \o InlineCommentsFrom(findings, i + 1)

buildInlineComments(findings) == InlineCommentsFrom(findings, 1)

(***************************************************************************)
(* Prompt                                                                  *)
(***************************************************************************)
\* the parts joined by blank lines, in order
buildUserPrompt(req, truncated) ==
  (IF IsTruthyStr(req.title) THEN <<[part |-> "PR Title", v |-> req.title.v]>> ELSE <<>>)
  \o (IF IsTruthyStr(req.description)
      THEN <<[part |-> "PR Description", v |-> req.description.v]>> ELSE <<>>)
  \o (IF IsTruthyStr(req.rulesMd)
      THEN <<[part |-> "Additional Review Rules", v |-> req.rulesMd.v]>> ELSE <<>>)
  \o <<[part |-> "Review Mode", v |-> req.mode]>>
  \o (IF truncated THEN <<[part |-> "Note: truncated", v |-> <<>>]>> ELSE <<>>)
  \o <<[part |-> "Diff to review", v |-> req.diff]>>

(***************************************************************************)
(* Text of the inference reply                                             *)
(***************************************************************************)
\* String(x): a string is itself; anything else prints as characters that are
\* no brace ("5", "null", "undefined", "[object Object]"); an array prints
\* its elements separated by commas
RECURSIVE JsString(_)
JsString(x) ==
  IF x.t = "str" THEN x.v
  ELSE IF x.t = "arr"
  THEN IF x.v = <<>> THEN <<>>
       ELSE IF Len(x.v) = 1
       THEN (IF x.v[1].t \in {"null", "absent"} THEN <<>> ELSE JsString(x.v[1]))
       ELSE (IF x.v[1].t \in {"null", "absent"} THEN <<>> ELSE JsString(x.v[1]))
            \o <<Ch("p")>> \o JsString(JArr(Tail(x.v)))
  ELSE <<Ch("p")>>

\* the text leaves of the content blocks of the items of an output array
RECURSIVE ContentTexts(_, _)
ContentTexts(content, i) ==
  IF i > Len(content) THEN <<>>
  ELSE (IF content[i].t = "obj" /\ Get(content[i], "text").t = "str"
        THEN <<Get(content[i], "text").v>> ELSE <<>>)
       \o ContentTexts(content, i + 1)

RECURSIVE OutputChunks(_, _)
OutputChunks(output, i) ==
  IF i > Len(output) THEN <<>>
  ELSE (IF output[i].t = "obj" /\ Get(output[i], "content").t = "arr"
        THEN ContentTexts(Get(output[i], "content").v, 1) ELSE <<>>)
       \o OutputChunks(output, i + 1)

\* chunks.join("\n")
RECURSIVE JoinLines(_)
JoinLines(chunks) ==
  IF chunks = <<>> THEN <<>>
  ELSE IF Len(chunks) = 1 THEN chunks[1]
  ELSE chunks[1] \o <<Ch(" ")>> \o JoinLines(Tail(chunks))

\* src/README.md
getAiResponseText(aiResponse) ==
  IF aiResponse.t = "str" THEN Ok(aiResponse.v)
  ELSE IF aiResponse.t \notin {"obj", "arr"} THEN Err("Unexpected AI response format")
  ELSE IF aiResponse.t = "obj" /\ HasKey(aiResponse, "response")
  THEN Ok(JsString(aiResponse.v["response"]))
  ELSE IF aiResponse.t = "obj" /\ HasKey(aiResponse, "output_text")
  THEN Ok(JsString(aiResponse.v["output_text"]))
  ELSE LET chunks == IF /\ aiResponse.t = "obj"
                        /\ HasKey(aiResponse, "output")
                        /\ aiResponse.v["output"].t = "arr"
                     THEN OutputChunks(aiResponse.v["output"].v, 1)
                     ELSE <<>>
       IN IF Len(chunks) > 0 THEN Ok(JoinLines(chunks))
          ELSE Err("Unexpected AI response format")

\* src/src/index.ts: the inline envelope test of handleReview
ResponseTextV1(aiResponse) ==
  IF aiResponse.t = "obj" /\ HasKey(aiResponse, "response")
  THEN Ok(JsString(aiResponse.v["response"]))
  ELSE Err("Unexpected AI response format")

\* src/unnamed/part_000: the inline envelope test of handleReview
ResponseTextV2(aiResponse) ==
  IF aiResponse.t \in {"obj", "arr"}
  THEN IF /\ aiResponse.t = "obj"
          /\ HasKey(aiResponse, "choices")
          /\ aiResponse.v["choices"].t = "arr"
          /\ Len(aiResponse.v["choices"].v) > 0
       THEN LET choice == aiResponse.v["choices"].v[1]
                message == Get(choice, "message")
            IN IF choice.t \in {"null", "absent"}
               THEN Err("TypeError: cannot read properties of null")
               ELSE IF message.t = "obj" /\ Get(message, "content").t = "str"
               THEN Ok(Get(message, "content").v)
               ELSE Err("No content in choices[0].message")
       ELSE Err("Unexpected AI response format: keys")
  ELSE Err("Unexpected AI response format")

(***************************************************************************)
(* Responses                                                               *)
(***************************************************************************)
NoResponse == [status |-> 0]

\* errorResponse(`${prefix}${message}`, status)
errorResponse(prefix, message, status) ==
  [status |-> status, body |-> [ok |-> FALSE, error |-> [prefix |-> prefix, message |-> message]]]

Meta(req, truncated) ==
  [provider |-> req.provider, repo |-> req.repo, sha |-> req.sha,
   mode |-> req.mode, truncatedDiff |-> truncated]

\* src/README.md: the response of the trivial bypass
TrivialSummary == <<"Trivial", "change", "No", "issues", "found">>

\* TrivialResponse with the review id printed in the report
TrivialResponse_IdInReport(req, truncated, id) ==
  [status |-> 200,
   body |-> [ok |-> TRUE,
             reviewId |-> id,
             summary |-> TrivialSummary,
             findings |-> <<>>,
             commentMd |-> renderReviewMarkdown(TrivialSummary, <<>>, <<>>, "approve", req.sha)
                           \o <<[k |-> "footer", commit |-> JStr(<<id>>)]>>,
             recommendation |-> "approve",
             meta |-> Meta(req, truncated)]]

TrivialResponse(req, truncated, id) ==
  [status |-> 200,
   body |-> [ok |-> TRUE,
             reviewId |-> id,
             summary |-> TrivialSummary,
             findings |-> <<>>,
             commentMd |-> renderReviewMarkdown(TrivialSummary, <<>>, <<>>, "approve", req.sha),
             recommendation |-> "approve",
             meta |-> Meta(req, truncated)]]

\* SuccessResponse with the report rendered from the unfiltered findings
SuccessResponse_UnfilteredReport(validated, req, truncated, id) ==
  LET filteredFindings == filterNonsensicalFindings(validated.findings)
      recommendation == deriveRecommendation(filteredFindings)
  IN [status |-> 200,
      body |-> [ok |-> TRUE,
                reviewId |-> id,
                summary |-> validated.summary,
                findings |-> filteredFindings,
                commentMd |-> renderReviewMarkdown(validated.summary, validated.findings,
                                                   validated.testingNotes, recommendation,
                                                   req.sha),
                recommendation |-> recommendation,
                meta |-> Meta(req, truncated)]]

\* SuccessResponse with the verdict taken from the unfiltered findings
SuccessResponse_UnfilteredVerdict(validated, req, truncated, id) ==
  LET filteredFindings == filterNonsensicalFindings(validated.findings)
      recommendation == deriveRecommendation(validated.findings)
  IN [status |-> 200,
      body |-> [ok |-> TRUE,
                reviewId |-> id,
                summary |-> validated.summary,
                findings |-> filteredFindings,
                commentMd |-> renderReviewMarkdown(validated.summary, filteredFindings,
                                                   validated.testingNotes, recommendation,
                                                   req.sha),
                recommendation |-> recommendation,
                meta |-> Meta(req, truncated)]]

\* src/README.md: the tail of handleReview, after validation
SuccessResponse(validated, req, truncated, id) ==
  LET filteredFindings == filterNonsensicalFindings(validated.findings)
      recommendation == deriveRecommendation(filteredFindings)
  IN [status |-> 200,
      body |-> [ok |-> TRUE,
                reviewId |-> id,
                summary |-> validated.summary,
                findings |-> filteredFindings,
                commentMd |-> renderReviewMarkdown(validated.summary, filteredFindings,
                                                   validated.testingNotes, recommendation,
                                                   req.sha),
                recommendation |-> recommendation,
                meta |-> Meta(req, truncated)]]

\* src/unnamed/part_000: the tail of handleReview, after validation
SuccessResponseV2(validated, req, truncated, id) ==
  LET recommendation == deriveRecommendation(validated.findings)
  IN [status |-> 200,
      body |-> [ok |-> TRUE,
                reviewId |-> id,
                summary |-> validated.summary,
                findings |-> validated.findings,
                commentMd |-> renderReviewMarkdownV2(validated.summary, validated.findings,
                                                     validated.testingNotes, recommendation,
                                                     req.sha),
                inlineComments |-> buildInlineComments(validated.findings),
                recommendation |-> recommendation,
                meta |-> Meta(req, truncated)]]

\* src/src/index.ts: the tail of handleReview, after validation
SuccessResponseV1(validated, req, truncated, id) ==
  [status |-> 200,
   body |-> [ok |-> TRUE,
             reviewId |-> id,
             summary |-> validated.summary,
             findings |-> validated.findings,
             meta |-> Meta(req, truncated)]]

(***************************************************************************)
(* Request checks of handleReview (the same in the three revisions)        *)
(***************************************************************************)
BEARER == <<"B", "e", "a", "r", "e", "r", " ">>
\* env.AUTH_TOKEN
AUTH_TOKEN == <<"t", "o", "k">>

\* CheckAuth without the comparison of the token
CheckAuth_PrefixOnly(hdr) ==
  IF hdr.t # "str" \/ hdr.v = <<>> \/ ~CStartsWith(hdr.v, BEARER)
  THEN Err(errorResponse("", "Unauthorized: Missing or invalid Authorization header", 401))
  ELSE Ok(TRUE)

\* Ok(TRUE) or Err(the 401 response)
CheckAuth(hdr) ==
  IF hdr.t # "str" \/ hdr.v = <<>> \/ ~CStartsWith(hdr.v, BEARER)
  THEN Err(errorResponse("", "Unauthorized: Missing or invalid Authorization header", 401))
  ELSE IF CSliceFrom(hdr.v, Len(BEARER)) # AUTH_TOKEN
  THEN Err(errorResponse("", "Unauthorized: Invalid token", 401))
  ELSE Ok(TRUE)

StrOrUndef(x) == IF x.t = "str" THEN x ELSE Absent
NumOrUndef(x) == IF x.t = "num" THEN x ELSE Absent

\* Ok(reviewReq) or Err(the 400 response); b is what request.json() gives,
\* [t |-> "badjson"] when it throws
ParseBody(b) ==
  IF b.t = "badjson" THEN Err(errorResponse("", "Invalid JSON body", 400))
  ELSE IF b.t \notin {"obj", "arr"}
  THEN Err(errorResponse("", "Request body must be a JSON object", 400))
  ELSE IF Get(b, "diff").t # "str" \/ TTrim(Get(b, "diff").v) = <<>>
  THEN Err(errorResponse("", "Missing or empty 'diff' field", 400))
  ELSE Ok([diff |-> Get(b, "diff").v,
           provider |-> StrOrUndef(Get(b, "provider")),
           repo |-> StrOrUndef(Get(b, "repo")),
           prNumber |-> NumOrUndef(Get(b, "prNumber")),
           mrIid |-> NumOrUndef(Get(b, "mrIid")),
           sha |-> StrOrUndef(Get(b, "sha")),
           title |-> StrOrUndef(Get(b, "title")),
           description |-> StrOrUndef(Get(b, "description")),
           mode |-> IF Get(b, "mode") = JStr("inline") THEN "inline" ELSE "summary",
           rulesMd |-> StrOrUndef(Get(b, "rulesMd"))])

\* the try block around extractJson and validateAiResponse
ExtractAndValidate(text) ==
  LET parsed == extractJson(text)
  IN IF parsed.ok THEN validateAiResponse(parsed.v) ELSE parsed

\* the input of env.AI.run
AiInput(req, truncated, strict, retry) ==
  [system |-> "SYSTEM_PROMPT",
   user |-> buildUserPrompt(req, truncated),
   strict |-> strict,
   retryNote |-> retry,
   responseFormat |-> IF strict THEN "json_object" ELSE "none"]

(***************************************************************************)
(* handleReview, cut at its awaits of env.AI.run                           *)
(***************************************************************************)
Impls == {"index_ts", "part_000", "readme"}

Respond(r) == [kind |-> "respond", response |-> r]

\* StartStep that asks isTrivialDiff about the diff as submitted
StartStep_TrivialBeforeTruncation(im, hdr, b, id) ==
  LET auth == CheckAuth(hdr)
      parsed == ParseBody(b)
  IN IF ~auth.ok THEN Respond(auth.err)
     ELSE IF ~parsed.ok THEN Respond(parsed.err)
     ELSE LET cut == TruncateDiff(parsed.v.diff)
              req == [parsed.v EXCEPT !.diff = cut.diff]
          IN IF im = "readme" /\ isTrivialDiff(parsed.v.diff)
             THEN [kind |-> "respond",
                   response |-> TrivialResponse(req, cut.truncatedDiff, id),
                   reviewReq |-> req,
                   truncatedDiff |-> cut.truncatedDiff,
                   classified |-> "trivial"]
             ELSE [kind |-> "call",
                   reviewReq |-> req,
                   truncatedDiff |-> cut.truncatedDiff,
                   classified |-> IF im = "readme" THEN "substantive" ELSE "none",
                   input |-> AiInput(req, cut.truncatedDiff, im = "readme", FALSE)]

\* from the entry to the first env.AI.run (or to an early return)
StartStep(im, hdr, b, id) ==
  LET auth == CheckAuth(hdr)
      parsed == ParseBody(b)
  IN IF ~auth.ok THEN Respond(auth.err)
     ELSE IF ~parsed.ok THEN Respond(parsed.err)
     ELSE LET cut == TruncateDiff(parsed.v.diff)
              reviewReq == [parsed.v EXCEPT !.diff = cut.diff]
          IN IF im = "readme" /\ isTrivialDiff(reviewReq.diff)
             THEN [kind |-> "respond",
                   response |-> TrivialResponse(reviewReq, cut.truncatedDiff, id),
                   reviewReq |-> reviewReq,
                   truncatedDiff |-> cut.truncatedDiff,
                   classified |-> "trivial"]
             ELSE [kind |-> "call",
                   reviewReq |-> reviewReq,
                   truncatedDiff |-> cut.truncatedDiff,
                   classified |-> IF im = "readme" THEN "substantive" ELSE "none",
                   input |-> AiInput(reviewReq, cut.truncatedDiff, im = "readme", FALSE)]

\* err instanceof Error ? err.message : fallback
MessageOf(out, fallback) == IF out.isError THEN out.message ELSE fallback

ResponseText(im, aiResponse) ==
  IF im = "index_ts" THEN ResponseTextV1(aiResponse)
  ELSE IF im = "part_000" THEN ResponseTextV2(aiResponse)
  ELSE getAiResponseText(aiResponse)

\* Success that writes the fresh review id into the summary
Success_IdInSummary(im, validated, req, truncated, id) ==
  LET r == IF im = "index_ts" THEN SuccessResponseV1(validated, req, truncated, id)
           ELSE IF im = "part_000" THEN SuccessResponseV2(validated, req, truncated, id)
           ELSE SuccessResponse(validated, req, truncated, id)
  IN [r EXCEPT !.body.summary = @ \o <<id>>]

Success(im, validated, req, truncated, id) ==
  IF im = "index_ts" THEN SuccessResponseV1(validated, req, truncated, id)
  ELSE IF im = "part_000" THEN SuccessResponseV2(validated, req, truncated, id)
  ELSE SuccessResponse(validated, req, truncated, id)

\* FirstReplyStep that also retries when the provider call throws
FirstReplyStep_RetryOnThrow(im, out, req, truncated, id) ==
  IF out.k = "throw"
  THEN IF im = "readme"
       THEN [kind |-> "call", input |-> AiInput(req, truncated, TRUE, TRUE)]
       ELSE Respond(errorResponse("AI failure: ", MessageOf(out, "Unknown AI error"), 500))
  ELSE LET text == ResponseText(im, out.v) IN
    IF ~text.ok THEN Respond(errorResponse("AI failure: ", text.err, 500))
    ELSE LET validated == ExtractAndValidate(text.v) IN
      IF validated.ok THEN Respond(Success(im, validated.v, req, truncated, id))
      ELSE IF im = "readme"
      THEN [kind |-> "call", input |-> AiInput(req, truncated, TRUE, TRUE)]
      ELSE Respond(errorResponse("AI response parsing failed: ", validated.err, 500))

\* from the first env.AI.run to the response or to the retry call; out is
\* how the call ended
FirstReplyStep(im, out, req, truncated, id) ==
  IF out.k = "throw"
  THEN Respond(errorResponse("AI failure: ", MessageOf(out, "Unknown AI error"), 500))
  ELSE LET text == ResponseText(im, out.v) IN
    IF ~text.ok THEN Respond(errorResponse("AI failure: ", text.err, 500))
    ELSE LET validated == ExtractAndValidate(text.v) IN
      IF validated.ok THEN Respond(Success(im, validated.v, req, truncated, id))
      ELSE IF im = "readme"
      THEN [kind |-> "call", input |-> AiInput(req, truncated, TRUE, TRUE)]
      ELSE Respond(errorResponse("AI response parsing failed: ", validated.err, 500))

\* RetryReplyStep that never assigns the retry's result to validated
RetryReplyStep_DiscardsRetry(out, req, truncated, id) ==
  IF out.k = "throw"
  THEN Respond(errorResponse("AI response parsing failed: ",
                             MessageOf(out, "Failed to parse AI response"), 500))
  ELSE LET text == getAiResponseText(out.v) IN
    IF ~text.ok THEN Respond(errorResponse("AI response parsing failed: ", text.err, 500))
    ELSE LET validated == ExtractAndValidate(text.v) IN
      Respond(errorResponse("AI response parsing failed: ",
                            IF validated.ok THEN "validated is not assigned"
                            ELSE validated.err, 500))

\* RetryReplyStep without its catch: what the retry throws leaves the handler
\* and the runtime answers with its own error page
RetryReplyStep_NoCatch(out, req, truncated, id) ==
  IF out.k = "throw"
  THEN Respond([status |-> 500, body |-> [uncaught |-> MessageOf(out, "")]])
  ELSE LET text == getAiResponseText(out.v) IN
    IF ~text.ok THEN Respond([status |-> 500, body |-> [uncaught |-> text.err]])
    ELSE LET validated == ExtractAndValidate(text.v) IN
      IF validated.ok THEN Respond(SuccessResponse(validated.v, req, truncated, id))
      ELSE Respond([status |-> 500, body |-> [uncaught |-> validated.err]])

\* src/README.md: from the retry env.AI.run to the response
RetryReplyStep(out, req, truncated, id) ==
  IF out.k = "throw"
  THEN Respond(errorResponse("AI response parsing failed: ",
                             MessageOf(out, "Failed to parse AI response"), 500))
  ELSE LET text == getAiResponseText(out.v) IN
    IF ~text.ok THEN Respond(errorResponse("AI response parsing failed: ", text.err, 500))
    ELSE LET validated == ExtractAndValidate(text.v) IN
      IF validated.ok THEN Respond(SuccessResponse(validated.v, req, truncated, id))
      ELSE Respond(errorResponse("AI response parsing failed: ", validated.err, 500))

(***************************************************************************)
(* Inputs                                                                  *)
(***************************************************************************)
\* crypto.randomUUID()
ReviewIds == {"uuid-a", "uuid-b"}

Headers ==
  { Absent,
    JStr(<<>>),
    JStr(BEARER \o AUTH_TOKEN),
    JStr(BEARER \o <<"b", "a", "d">>),
    JStr(BEARER),
    JStr(<<"b", "e", "a", "r", "e", "r", " ">> \o AUTH_TOKEN),
    JStr(<<"B", "a", "s", "i", "c", " ">> \o AUTH_TOKEN),
    JStr(AUTH_TOKEN) }

GoodHeader == JStr(BEARER \o AUTH_TOKEN)

BodyObj(diff, sha, mode, provider, title) ==
  JObj([diff |-> diff, provider |-> provider, repo |-> Absent, prNumber |-> Absent,
        mrIid |-> Absent, sha |-> sha, title |-> title, description |-> Absent,
        mode |-> mode, rulesMd |-> Absent])

\* "+x": one substantive line
DiffCode == <<Run("+", 1), Run("x", 1)>>
\* "+//x\n-#": comment-only changes
DiffComment == <<Run("+", 1), Run("/", 2), Run("x", 1), Run(NL, 1), Run("-", 1), Run("#", 1)>>
\* " x\n x": context only
DiffContext == <<Run(" ", 1), Run("x", 1), Run(NL, 1), Run(" ", 1), Run("x", 1)>>
\* "+++ x\n+ \n-x": header, blank change, substantive change
DiffMixed == <<Run("+", 3), Run(" ", 1), Run("x", 1), Run(NL, 1), Run("+", 1), Run(" ", 1),
               Run(NL, 1), Run("-", 1), Run("x", 1)>>
\* exactly MAX_DIFF_LENGTH characters
DiffExact == <<Run("+", 1), Run("x", MAX_DIFF_LENGTH - 1)>>
\* one character more
DiffOver == <<Run("+", 1), Run("x", MAX_DIFF_LENGTH)>>
\* a comment of MAX_DIFF_LENGTH characters, then "\n+x"
DiffLongTail == <<Run("+", 1), Run("#", MAX_DIFF_LENGTH - 1), Run(NL, 1), Run("+", 1),
                  Run("x", 1)>>
\* a comment line longer than the bound
DiffLongComment == <<Run("-", 1), Run("*", MAX_DIFF_LENGTH + 5)>>

SampleDiffs ==
  {DiffCode, DiffComment, DiffContext, DiffMixed, DiffExact, DiffOver, DiffLongTail,
   DiffLongComment}

Sha9 == JStr(<<"a", "b", "c", "1", "2", "3", "4", "5", "6">>)
Sha3 == JStr(<<"a", "b", "c">>)

BadBodies ==
  { [t |-> "badjson"], JNull, JNum(7), JStr(<<>>), JArr(<<>>),
    BodyObj(Absent, Absent, Absent, Absent, Absent),
    BodyObj(JNum(1), Sha9, Absent, Absent, Absent),
    BodyObj(JStr(<<>>), Absent, Absent, Absent, Absent),
    BodyObj(JStr(<<Run(" ", 2), Run(NL, 1)>>), Absent, Absent, Absent, Absent) }

GoodBodies ==
  { BodyObj(JStr(d), Absent, Absent, Absent, Absent) : d \in SampleDiffs }
  \cup { BodyObj(JStr(d), Sha9, JStr("inline"), JStr(<<"github">>), JStr(<<"Fix", "bug">>)) :
           d \in {DiffCode, DiffComment, DiffOver} }
  \cup { BodyObj(JStr(DiffCode), Sha3, JStr("other"), JNum(1), JStr(<<>>)),
         BodyObj(JStr(DiffCode), JNum(5), JNum(1), Absent, Absent) }

\* <<Authorization header, body>>
Requests ==
  (Headers \X {BodyObj(JStr(DiffCode), Absent, Absent, Absent, Absent)})
  \cup ({GoodHeader} \X (BadBodies \cup GoodBodies))

CoreRequests ==
  {GoodHeader} \X { BodyObj(JStr(DiffCode), Sha9, JStr("inline"), JStr(<<"github">>),
                             JStr(<<"Fix", "bug">>)),
                    BodyObj(JStr(DiffOver), Absent, Absent, Absent, Absent) }

\* raw findings the model may emit
RawFinding(severity, title, rationale, suggestion, file, line) ==
  JObj([severity |-> severity, title |-> title, rationale |-> rationale,
        suggestion |-> suggestion, file |-> file, line |-> line])

RawHigh == RawFinding(JStr("high"), JStr(<<"bug">>), JStr(<<"null", "check">>),
                      JStr(<<"guard">>), JStr(<<"a.ts">>), JNum(3))
\* a line that is no integer
RawMedium == RawFinding(JStr("medium"), JStr(<<"slow">>), JStr(<<"loop">>),
                        Absent, JStr(<<"m.ts">>), JFrac(2))
RawLow == RawFinding(JStr("low"), JStr(<<"name">>), JStr(<<"unclear">>),
                     Absent, JStr(<<"b.ts">>), JNum(0))
RawNit == RawFinding(JStr("nit"), JStr(<<"typo">>), JStr(<<"spelling">>),
                     JStr(<<>>), JStr(<<"c.ts">>), JNum(-1))
\* noise by its title
RawNoiseHigh == RawFinding(JStr("high"), JStr(<<"Missing", "PR", "Title">>),
                           JStr(<<"add", "one">>), Absent, Absent, Absent)
\* noise only across the title and the rationale: "style No" + "context given"
RawNoiseMedium == RawFinding(JStr("medium"), JStr(<<"style", "No">>),
                             JStr(<<"context", "given">>), Absent, JStr(<<"a.ts">>), JNum(9))
\* noise by its suggestion
RawNoiseLow == RawFinding(JStr("low"), JStr(<<"docs">>), JStr(<<"thin">>),
                          JStr(<<"Provide", "a", "clear", "description">>), Absent, Absent)
\* dropped by validation: severity outside the enumeration
RawCritical == RawFinding(JStr("critical"), JStr(<<"crash">>), JStr(<<"boom">>),
                          Absent, Absent, Absent)
\* dropped by validation: no rationale
RawNoRationale == RawFinding(JStr("high"), JStr(<<"leak">>), Absent, Absent, Absent, Absent)

RawFindings ==
  {RawHigh, RawMedium, RawLow, RawNit, RawNoiseHigh, RawNoiseMedium, RawNoiseLow,
   RawCritical, RawNoRationale}

RawArrays == UNION { [1..n -> RawFindings] : n \in 0..MaxFindings }

Payload(summary, findings, testingNotes, recommendation) ==
  [summary |-> summary, findings |-> findings, testingNotes |-> testingNotes,
   recommendation |-> recommendation]

GoodSummary == JStr(<<"looks", "fine">>)

Payloads ==
  { Payload(GoodSummary, JArr(a), Absent, Absent) : a \in RawArrays }
  \cup { Payload(GoodSummary, Absent, Absent, Absent),
         Payload(GoodSummary, JStr(<<"none">>), JArr(<<JStr(<<"run", "tests">>), JNum(1), JStr(<<>>)>>),
                 JStr("request_changes")),
         Payload(GoodSummary, JArr(<<RawHigh, JNum(4), JNull>>), Absent, JStr("approve")),
         Payload(JStr(<<>>), JArr(<<RawMedium>>), Absent, Absent),
         Payload(Absent, JArr(<<RawHigh>>), Absent, Absent),
         Payload(JNum(1), JArr(<<>>), Absent, Absent) }

\* the JSON object alone
Bare(o) == <<LB, Members(o), RB>>
OnePayload == Payload(GoodSummary, JArr(<<RawHigh, RawNoiseMedium>>), Absent, Absent)

Texts ==
  { Bare(o) : o \in Payloads }
  \cup { <<Ch("p"), Ch(" "), LB, Ch(" "), Members(OnePayload), Ch(" "), RB, Ch(" "), Ch("p")>>,
         <<>>,
         <<Ch("p")>>,
         <<RB, Ch("p"), LB>>,
         <<LB, Members(OnePayload)>>,
         <<LB, RB>>,
         <<LB, Ch("p"), RB, Ch(" "), LB, Members(OnePayload), RB>>,
         <<LB, Members(OnePayload), Ch("p"), RB>> }

\* an envelope every revision reads the text from
Envelope(text) ==
  JObj([response |-> JStr(text),
        choices |-> JArr(<<JObj([message |-> JObj([content |-> JStr(text)])])>>)])

OneText == Bare(OnePayload)

OddEnvelopes ==
  { JStr(OneText),
    JNull,
    JNum(3),
    JArr(<<JStr(OneText)>>),
    JObj([response |-> JStr(OneText)]),
    JObj([response |-> JNum(5), output_text |-> JStr(OneText)]),
    JObj([output_text |-> JStr(OneText)]),
    JObj([output_text |-> JStr(<<Ch("p")>>),
          output |-> JArr(<<JObj([content |-> JArr(<<JObj([text |-> JStr(OneText)])>>)])>>)]),
    JObj([output |-> JArr(<<JNull,
                            JObj([content |-> JArr(<<JObj([text |-> JStr(<<LB>>)]),
                                                     JNum(1),
                                                     JObj([text |-> JStr(<<Members(OnePayload), RB>>)])>>)])>>)]),
    JObj([output |-> JArr(<<JObj([content |-> JStr(OneText)])>>)]),
    JObj([output |-> JStr(OneText)]),
    JObj([choices |-> JArr(<<JObj([message |-> JObj([content |-> JStr(OneText)])])>>)]),
    JObj([choices |-> JArr(<<>>)]),
    JObj([choices |-> JArr(<<JNull>>)]),
    JObj([choices |-> JArr(<<JObj([message |-> JStr(OneText)])>>)]),
    JObj([text |-> JStr(OneText)]) }

Return(v) == [k |-> "return", v |-> v]
Throw(isError, message) == [k |-> "throw", isError |-> isError, message |-> message]

\* how a call of env.AI.run can end
Outcomes ==
  { Return(Envelope(t)) : t \in Texts }
  \cup { Return(e) : e \in OddEnvelopes }
  \cup { Throw(TRUE, "provider timeout"), Throw(FALSE, "") }

GoodOutcome == Return(Envelope(OneText))
ProseOutcome == Return(Envelope(<<Ch("p")>>))
NoSummaryOutcome == Return(Envelope(Bare(Payload(Absent, JArr(<<RawHigh>>), Absent, Absent))))

CoreOutcomes == {GoodOutcome, ProseOutcome, NoSummaryOutcome, Throw(TRUE, "provider timeout")}

\* <<how the first call ends, how the retry call ends>>
Scripts == (Outcomes \X CoreOutcomes) \cup (CoreOutcomes \X Outcomes)
CoreScripts == CoreOutcomes \X CoreOutcomes

(***************************************************************************)
(* State                                                                   *)
(***************************************************************************)
VARIABLES
  impl,          \* the revision of the worker
  authHeader,    \* request.headers.get("Authorization")
  body,          \* what request.json() gives
  script,        \* how the calls of env.AI.run end, in order
  pc,            \* where handleReview stands: start, await1, await2, done
  calls,         \* the inputs of the env.AI.run calls issued, in order
  replies,       \* how the calls ended, in order
  reviewReq,     \* the local reviewReq (diff truncated)
  truncatedDiff, \* the local truncatedDiff
  classified,    \* what isTrivialDiff said: none (not asked), trivial, substantive
  response,      \* the Response returned, NoResponse before
  submits,       \* how often the request has been submitted
  prev           \* the response to the previous submission of the same request

vars == <<impl, authHeader, body, script, pc, calls, replies, reviewReq, truncatedDiff,
          classified, response, submits, prev>>

NoReq == [diff |-> <<>>]

InitHandler ==
  /\ pc = "start"
  /\ calls = <<>>
  /\ replies = <<>>
  /\ reviewReq = NoReq
  /\ truncatedDiff = FALSE
  /\ classified = "none"
  /\ response = NoResponse
  /\ submits = 1
  /\ prev = NoResponse

Init ==
  /\ impl \in Impls
  /\ \E r \in Requests \cup CoreRequests :
       /\ authHeader = r[1]
       /\ body = r[2]
       /\ script \in IF r \in CoreRequests THEN Scripts ELSE CoreScripts
  /\ InitHandler

inputs == <<impl, authHeader, body, script>>

\* handleReview runs to its first await of env.AI.run, or returns
HandleStart ==
  /\ pc = "start"
  /\ \E id \in ReviewIds :
       LET step == StartStep(impl, authHeader, body, id)
           parsedOk == "reviewReq" \in DOMAIN step
       IN /\ reviewReq' = IF parsedOk THEN step.reviewReq ELSE reviewReq
          /\ truncatedDiff' = IF parsedOk THEN step.truncatedDiff ELSE truncatedDiff
          /\ classified' = IF parsedOk THEN step.classified ELSE classified
          /\ IF step.kind = "respond"
             THEN /\ response' = step.response
                  /\ pc' = "done"
                  /\ UNCHANGED calls
             ELSE /\ calls' = Append(calls, step.input)
                  /\ pc' = "await1"
                  /\ UNCHANGED response
  /\ UNCHANGED <<inputs, replies, submits, prev>>

\* the inference provider ends the call in flight
AiRespond ==
  /\ Len(replies) < Len(calls)
  /\ replies' = Append(replies, script[Len(replies) + 1])
  /\ UNCHANGED <<inputs, pc, calls, reviewReq, truncatedDiff, classified, response, submits,
                 prev>>

\* handleReview resumes after the first call
ResumeFirst ==
  /\ pc = "await1"
  /\ Len(replies) = 1
  /\ \E id \in ReviewIds :
       LET step == FirstReplyStep(impl, replies[1], reviewReq, truncatedDiff, id) IN
         IF step.kind = "respond"
         THEN /\ response' = step.response
              /\ pc' = "done"
              /\ UNCHANGED calls
         ELSE /\ calls' = Append(calls, step.input)
              /\ pc' = "await2"
              /\ UNCHANGED response
  /\ UNCHANGED <<inputs, replies, reviewReq, truncatedDiff, classified, submits, prev>>

\* handleReview resumes after the retry call
ResumeRetry ==
  /\ pc = "await2"
  /\ Len(replies) = 2
  /\ \E id \in ReviewIds :
       LET step == RetryReplyStep(replies[2], reviewReq, truncatedDiff, id) IN
         /\ response' = step.response
         /\ pc' = "done"
  /\ UNCHANGED <<inputs, calls, replies, reviewReq, truncatedDiff, classified, submits, prev>>

\* the client submits the same request again, and the provider is mocked to
\* end its calls as before
Resubmit ==
  /\ pc = "done"
  /\ submits < MaxSubmits
  /\ submits' = submits + 1
  /\ prev' = response
  /\ pc' = "start"
  /\ calls' = <<>>
  /\ replies' = <<>>
  /\ reviewReq' = NoReq
  /\ truncatedDiff' = FALSE
  /\ classified' = "none"
  /\ response' = NoResponse
  /\ UNCHANGED inputs

Next == HandleStart \/ AiRespond \/ ResumeFirst \/ ResumeRetry \/ Resubmit

Spec == Init /\ [][Next]_vars

\* the steps of handleReview, told by where it stands before and after: in a
\* behaviour of Next these are the HandleStart, ResumeFirst and ResumeRetry
\* steps, and one is possible exactly when that action is enabled
Started == pc = "start" /\ pc' \in {"await1", "done"}
ResumedFirst == pc = "await1" /\ Len(replies) = 1 /\ pc' \in {"await2", "done"}
ResumedRetry == pc = "await2" /\ Len(replies) = 2 /\ pc' = "done"

\* every call of env.AI.run settles, and the runtime runs the handler on
\* whenever it can go on; the client need not submit again
Fairness ==
  /\ WF_pc(Started)
  /\ WF_vars(AiRespond)
  /\ WF_pc(ResumedFirst)
  /\ WF_pc(ResumedRetry)

\* one request of each way handleReview can go, with the calls ending in
\* each of the ways a call can end
LiveRequests ==
  CoreRequests
  \cup { <<Absent, BodyObj(JStr(DiffCode), Absent, Absent, Absent, Absent)>>,
         <<GoodHeader, BodyObj(Absent, Absent, Absent, Absent, Absent)>>,
         <<GoodHeader, BodyObj(JStr(DiffComment), Absent, Absent, Absent, Absent)>> }

LiveScripts ==
  CoreScripts
  \cup { <<Return(JNull), GoodOutcome>>,
         <<ProseOutcome, Return(JNull)>>,
         <<ProseOutcome, Throw(FALSE, "")>> }

InitLive ==
  /\ impl \in Impls
  /\ \E r \in LiveRequests : authHeader = r[1] /\ body = r[2]
  /\ script \in LiveScripts
  /\ InitHandler

SpecLive == InitLive /\ [][Next]_vars /\ Fairness

(***************************************************************************)
(* The diff pre-processing on every diff of at most MaxRuns runs: the      *)
(* request is authorized and well formed but for its diff, and the         *)
(* provider's first reply carries no JSON.                                 *)
(***************************************************************************)
DiffRuns ==
  { Run("+", 1), Run("+", 3), Run("-", 1), Run("/", 1), Run("#", 1), Run("*", 1),
    Run(" ", 1), Run("x", 1), Run(NL, 1), Run("x", MAX_DIFF_LENGTH - 1) }

DiffUniverse == UNION { [1..n -> DiffRuns] : n \in 0..MaxRuns } \cup SampleDiffs

InitPre ==
  /\ impl \in Impls
  /\ authHeader = GoodHeader
  /\ \E d \in DiffUniverse : body = BodyObj(JStr(d), Sha9, Absent, Absent, Absent)
  /\ script = <<ProseOutcome, GoodOutcome>>
  /\ InitHandler

NextPre == HandleStart \/ AiRespond \/ ResumeFirst \/ ResumeRetry

SpecPre == InitPre /\ [][NextPre]_vars

(***************************************************************************)
(* Vocabulary of the properties                                            *)
(***************************************************************************)
Done == pc = "done"
Succeeded == pc = "done" /\ response.status = 200

\* the call returned a reply and the text of the reply was read
Replied(out) == out.k = "return" /\ ResponseText(impl, out.v).ok
ReplyText(out) == ResponseText(impl, out.v).v

\* the reply holds a JSON object the extractor parses
IsJsonReply(out) == Replied(out) /\ extractJson(ReplyText(out)).ok
\* the reply passes extraction and validation
PassesFormat(out) == Replied(out) /\ ExtractAndValidate(ReplyText(out)).ok
\* the call returned a reply whose extraction or validation failed
FailsFormat(out) == Replied(out) /\ ~ExtractAndValidate(ReplyText(out)).ok

ParsingError(r) ==
  r.status = 500 /\ ~r.body.ok /\ r.body.error.prefix = "AI response parsing failed: "
AiFailure(r) ==
  r.status = 500 /\ ~r.body.ok /\ r.body.error.prefix = "AI failure: "

HasSeverity(fs, sev) == \E i \in 1..Len(fs) : fs[i].severity = sev
HasRecommendation == Succeeded /\ "recommendation" \in DOMAIN response.body

\* the findings validation kept from the reply the response was built from
AcceptedFindings == ExtractAndValidate(ReplyText(replies[Len(replies)])).v.findings

\* C1: handleReview issues at most two inference calls, never two at a time,
\* and the second only after the first returned a reply whose extraction or
\* validation failed
C1_AtMostTwoSequentialCalls ==
  /\ Len(calls) <= 2
  /\ Len(replies) <= Len(calls)
  /\ Len(calls) - Len(replies) <= 1
  /\ Len(calls) = 2 => Len(replies) >= 1 /\ FailsFormat(replies[1])

\* the retry call was issued and the request has ended
C1_Witness == Done /\ Len(calls) = 2 /\ Len(replies) = 2

\* C2 as stated: a first reply that is not valid JSON followed by a second
\* that is valid JSON ends in a successful response; two replies that are
\* not valid JSON end in the parsing error
C2_Original ==
  Done /\ Len(replies) = 2 =>
    /\ ~IsJsonReply(replies[1]) /\ IsJsonReply(replies[2]) => response.status = 200
    /\ ~IsJsonReply(replies[1]) /\ ~IsJsonReply(replies[2]) => ParsingError(response)

\* C2 amended: a first reply that fails extraction or validation followed
\* by a second that passes both ends in a successful response; two replies
\* that fail extraction or validation end in the parsing error
C2_RetryOutcomes ==
  Done /\ Len(replies) = 2 =>
    /\ ~PassesFormat(replies[1]) /\ PassesFormat(replies[2]) =>
         response.status = 200 /\ response.body.ok
    /\ ~PassesFormat(replies[1]) /\ replies[2].k = "return" /\ ~PassesFormat(replies[2]) =>
         ParsingError(response)

\* the first reply failed, the retry's reply passed
C2_Witness ==
  /\ Done /\ Len(replies) = 2
  /\ FailsFormat(replies[1]) /\ PassesFormat(replies[2])
  /\ response.status = 200

\* C3: when a provider call throws, on the first call or on the retry, no
\* further call is made and the request ends with the AI failure error
C3_ProviderFailure ==
  \A i \in 1..Len(replies) :
    replies[i].k = "throw" =>
      /\ Len(calls) = i
      /\ Done => AiFailure(response)

\* C4: a diff isTrivialDiff classifies trivial gets the canned approve
\* response with no inference call, the same on every submission but for
\* the reviewId
C4_TrivialBypass ==
  classified = "trivial" =>
    /\ Done
    /\ calls = <<>>
    /\ replies = <<>>
    /\ response.status = 200
    /\ response.body.ok
    /\ response.body.summary = TrivialSummary
    /\ response.body.findings = <<>>
    /\ response.body.recommendation = "approve"
    /\ submits > 1 =>
         [response.body EXCEPT !.reviewId = ""] = [prev.body EXCEPT !.reviewId = ""]

\* a trivial diff answered twice, with two review ids
C4_Witness ==
  /\ classified = "trivial" /\ Done /\ submits = 2
  /\ response.body.reviewId # prev.body.reviewId

\* the request fails authorization, as C5 lists it
Unauthorized ==
  \/ authHeader.t # "str"
  \/ ~CStartsWith(authHeader.v, BEARER)
  \/ CSliceFrom(authHeader.v, 7) # AUTH_TOKEN

\* the request's input is invalid, as C5 lists it
InvalidInput ==
  \/ body.t = "badjson"
  \/ body.t # "obj"
  \/ Get(body, "diff").t # "str"
  \/ TTrim(Get(body, "diff").v) = <<>>

\* C5: an unauthorized request or one with invalid input ends with an
\* ErrorResponse {ok: false, error} and no inference call
C5_RejectedBeforeInference ==
  Unauthorized \/ InvalidInput =>
    /\ calls = <<>>
    /\ pc \in {"start", "done"}
    /\ Done => /\ response.status \in {400, 401}
               /\ DOMAIN response.body = {"ok", "error"}
               /\ response.body.ok = FALSE

\* a request with a good token and a blank diff was rejected
C5_Witness ==
  /\ Done /\ ~Unauthorized /\ body.t = "obj" /\ Get(body, "diff").t = "str"
  /\ response.status = 400

\* C6: every finding of a successful response passed validateFinding and is
\* not matched by the metadata-noise filter
C6_FindingsValidatedAndFiltered ==
  Succeeded =>
    \A i \in 1..Len(response.body.findings) :
      /\ \E j \in 1..Len(AcceptedFindings) : AcceptedFindings[j] = response.body.findings[i]
      /\ ~isMetadataNoiseFinding(response.body.findings[i])

\* C7: the recommendation of a successful response is deriveRecommendation
\* of the findings of that response
C7_RecommendationOfResponseFindings ==
  HasRecommendation =>
    response.body.recommendation = deriveRecommendation(response.body.findings)

\* validation kept a high finding, the filter removed it, the verdict is approve
C7_Witness ==
  /\ HasRecommendation /\ Len(replies) >= 1
  /\ HasSeverity(AcceptedFindings, "high")
  /\ ~HasSeverity(response.body.findings, "high")
  /\ response.body.recommendation = "approve"

\* C8: request_changes iff some finding is high; approve_with_changes iff
\* none is high and some is medium; approve otherwise
C8_SeverityPriority ==
  HasRecommendation =>
    LET fs == response.body.findings
        rec == response.body.recommendation
    IN /\ rec = "request_changes" <=> HasSeverity(fs, "high")
       /\ rec = "approve_with_changes" <=>
            ~HasSeverity(fs, "high") /\ HasSeverity(fs, "medium")
       /\ rec = "approve" <=> ~HasSeverity(fs, "high") /\ ~HasSeverity(fs, "medium")

\* a medium finding before a high one: high wins
C8_Witness ==
  /\ HasRecommendation
  /\ Len(response.body.findings) = 2
  /\ response.body.findings[1].severity = "medium"
  /\ response.body.findings[2].severity = "high"
  /\ response.body.recommendation = "request_changes"

\* p spells the first characters of t
RECURSIVE IsPrefixOf(_, _)
IsPrefixOf(p, t) ==
  \/ p = <<>>
  \/ /\ t # <<>>
     /\ p[1].c = t[1].c
     /\ \/ p[1].n = t[1].n /\ IsPrefixOf(Tail(p), Tail(t))
        \/ p[1].n < t[1].n /\ Len(p) = 1

SubmittedDiff == Get(body, "diff").v
HasReviewReq == reviewReq # NoReq

\* C9: a diff of at most MAX_DIFF_LENGTH characters is kept as it is with
\* truncated = false; a longer one is cut to its first MAX_DIFF_LENGTH
\* characters with truncated = true; meta.truncatedDiff of a successful
\* response says whether the submitted diff was longer than the bound
C9_Truncation ==
  HasReviewReq =>
    /\ TLen(SubmittedDiff) <= MAX_DIFF_LENGTH =>
         reviewReq.diff = SubmittedDiff /\ ~truncatedDiff
    /\ TLen(SubmittedDiff) > MAX_DIFF_LENGTH =>
         /\ TLen(reviewReq.diff) = MAX_DIFF_LENGTH
         /\ IsPrefixOf(reviewReq.diff, SubmittedDiff)
         /\ truncatedDiff
    /\ Succeeded =>
         (response.body.meta.truncatedDiff <=> TLen(SubmittedDiff) > MAX_DIFF_LENGTH)

\* a diff longer than the bound was reviewed
C9_Witness ==
  /\ Succeeded /\ Len(calls) >= 1
  /\ TLen(SubmittedDiff) > MAX_DIFF_LENGTH
  /\ response.body.meta.truncatedDiff

\* the line is an added or removed line, not a file header
IsChangedLine(line) ==
  /\ TCharAt(line, 1) \in {"+", "-"}
  /\ ~(TCharAt(line, 1) = "+" /\ TCharAt(line, 2) = "+" /\ TCharAt(line, 3) = "+")
  /\ ~(TCharAt(line, 1) = "-" /\ TCharAt(line, 2) = "-" /\ TCharAt(line, 3) = "-")

CommentMarkers == {<<"/", "/">>, <<"#">>, <<"*">>, <<"/", "*">>, <<"*", "/">>}

\* the line's content is empty or starts with a comment marker
IsBlankOrComment(line) ==
  LET content == TTrim(TDropFirst(line))
  IN content = <<>> \/ \E m \in CommentMarkers : TStartsWith(content, m)

DiffLines == TSplitLines(reviewReq.diff)

\* C10: isTrivialDiff is true iff every changed line is blank or a comment
C10_TrivialIffOnlyBlankOrComment ==
  classified # "none" =>
    (classified = "trivial" <=>
       \A i \in 1..Len(DiffLines) :
         IsChangedLine(DiffLines[i]) => IsBlankOrComment(DiffLines[i]))

\* a blank changed line, then a substantive one: not trivial
C10_Witness ==
  /\ classified = "substantive"
  /\ \E i, j \in 1..Len(DiffLines) :
       /\ i < j
       /\ IsChangedLine(DiffLines[i]) /\ IsBlankOrComment(DiffLines[i])
       /\ IsChangedLine(DiffLines[j]) /\ ~IsBlankOrComment(DiffLines[j])

\* the object the extractor parsed from the reply the response was built from
AcceptedParsed == extractJson(ReplyText(replies[Len(replies)])).v
\* the elements of its findings array (none when findings is no array)
RawFindingsOf(parsed) ==
  IF Get(parsed, "findings").t = "arr" THEN Get(parsed, "findings").v ELSE <<>>
BuiltFromReply == Succeeded /\ Len(replies) >= 1

NonEmptyText(x) == x.t = "str" /\ x.v # <<>>

\* the element is an object with a severity of the enumeration, a non-empty
\* text title and a non-empty text rationale
Qualifies(raw) ==
  /\ raw.t = "obj"
  /\ Get(raw, "severity").t = "str"
  /\ Get(raw, "severity").v \in {"high", "medium", "low", "nit"}
  /\ NonEmptyText(Get(raw, "title"))
  /\ NonEmptyText(Get(raw, "rationale"))

\* C11: the findings of validateAiResponse are the qualifying elements of the
\* raw findings array, in their order, each with its own severity, title and
\* rationale; an element that does not qualify is dropped alone
C11_ValidFindingsSubsequence ==
  BuiltFromReply =>
    LET kept == SelectSeq(RawFindingsOf(AcceptedParsed), Qualifies)
    IN /\ Len(AcceptedFindings) = Len(kept)
       /\ \A i \in 1..Len(kept) :
            /\ AcceptedFindings[i].severity = Get(kept[i], "severity").v
            /\ AcceptedFindings[i].title = Get(kept[i], "title").v
            /\ AcceptedFindings[i].rationale = Get(kept[i], "rationale").v

\* an element that does not qualify before one that does: the sibling survives
C11_Witness ==
  /\ BuiltFromReply
  /\ LET raw == RawFindingsOf(AcceptedParsed)
     IN /\ Len(raw) = 2 /\ ~Qualifies(raw[1]) /\ Qualifies(raw[2])
        /\ Len(AcceptedFindings) = 1
        /\ AcceptedFindings[1].title = Get(raw[2], "title").v

NoLineOrNonNegative(f) ==
  f.line.t = "absent" \/ (f.line.t = "num" /\ f.line.int /\ f.line.v >= 0)

\* C12: every finding validation produces, and every finding of a successful
\* response, has no line or a line that is a non-negative integer
C12_LineNonNegative ==
  BuiltFromReply =>
    /\ \A i \in 1..Len(AcceptedFindings) : NoLineOrNonNegative(AcceptedFindings[i])
    /\ \A i \in 1..Len(response.body.findings) :
         NoLineOrNonNegative(response.body.findings[i])

HasInlineComments == Succeeded /\ "inlineComments" \in DOMAIN response.body
\* the finding carries a file and a line
CarriesFileAndLine(f) == f.file.t # "absent" /\ f.line.t # "absent"
Bullets(md) == SelectSeq(md, LAMBDA part : part.k = "bullet")

\* C13: the inline comments are, in order, one for each finding of the
\* response that carries a file and a line, with that file as path and that
\* line as line; every finding has its bullet in the report
C13_InlineCommentPerLocatedFinding ==
  HasInlineComments =>
    LET located == SelectSeq(response.body.findings, CarriesFileAndLine)
        comments == response.body.inlineComments
    IN /\ Len(comments) = Len(located)
       /\ \A i \in 1..Len(located) :
            /\ comments[i].path = located[i].file.v
            /\ comments[i].line = located[i].line.v
       /\ Len(Bullets(response.body.commentMd)) = Len(response.body.findings)

\* C14: every inline comment of a successful response has a line >= 1
C14_InlineLinePositive ==
  HasInlineComments =>
    \A i \in 1..Len(response.body.inlineComments) :
      response.body.inlineComments[i].line >= 1

OpenBraces(text) == {i \in 1..Len(text) : text[i] = Ch("{")}
CloseBraces(text) == {i \in 1..Len(text) : text[i] = Ch("}")}
FirstOf(S) == CHOOSE i \in S : \A j \in S : i <= j
LastOf(S) == CHOOSE i \in S : \A j \in S : j <= i

\* no '{', or no '}', or the last '}' before the first '{'
NoJsonIn(text) ==
  \/ OpenBraces(text) = {}
  \/ CloseBraces(text) = {}
  \/ LastOf(CloseBraces(text)) < FirstOf(OpenBraces(text))

\* from the first '{' to the last '}', both included
Braced(text) == SubSeq(text, FirstOf(OpenBraces(text)), LastOf(CloseBraces(text)))

LastReply == replies[Len(replies)]
NoJsonMessage == "No JSON object found in response"

\* C15: extractJson fails with the no-JSON-found error iff the text has no
\* '{', no '}' or its last '}' before its first '{'; otherwise its result is
\* the parse of the text from the first '{' to the last '}', a syntax error
\* iff that is no valid JSON; two texts with the same braced part give the
\* same result; the parsing error of the response reports the same condition
C15_ExtractJsonBraces ==
  /\ \A i \in 1..Len(replies) :
       Replied(replies[i]) =>
         LET text == ReplyText(replies[i])
             result == extractJson(text)
         IN /\ result = Err(NoJsonMessage) <=> NoJsonIn(text)
            /\ ~NoJsonIn(text) => result = JsonParse(Braced(text))
            /\ \A j \in 1..Len(replies) :
                 /\ Replied(replies[j])
                 /\ ~NoJsonIn(text)
                 /\ ~NoJsonIn(ReplyText(replies[j]))
                 /\ Braced(ReplyText(replies[j])) = Braced(text)
                 => extractJson(ReplyText(replies[j])) = result
  /\ Done /\ Len(replies) >= 1 /\ Replied(LastReply) /\ ParsingError(response) =>
       LET text == ReplyText(LastReply)
       IN /\ response.body.error.message = NoJsonMessage <=> NoJsonIn(text)
          /\ response.body.error.message = "SyntaxError" <=>
               ~NoJsonIn(text) /\ ~JsonParse(Braced(text)).ok

\* a reply with prose before and after the object was accepted
C15_Witness ==
  /\ BuiltFromReply
  /\ LET text == ReplyText(LastReply)
     IN /\ text[1] # Ch("{") /\ text[Len(text)] # Ch("}")
        /\ Len(Braced(text)) < Len(text)

\* the last reply held a JSON object the extractor parsed
ParsedLastReply ==
  Done /\ Len(replies) >= 1 /\ Replied(LastReply) /\ extractJson(ReplyText(LastReply)).ok
MissingSummaryMessage == "AI response missing summary"

\* C16: validateAiResponse fails with the missing-summary error iff summary
\* is absent or not text; with a text summary it succeeds, returns that
\* summary unchanged, and returns no findings when findings is absent or not
\* an array
C16_ValidateAiResponseSummary ==
  ParsedLastReply =>
    LET summary == Get(AcceptedParsed, "summary")
        findings == Get(AcceptedParsed, "findings")
        result == validateAiResponse(AcceptedParsed)
    IN /\ result = Err(MissingSummaryMessage) <=> summary.t # "str"
       /\ summary.t = "str" =>
            /\ result.ok
            /\ result.v.summary = summary.v
            /\ findings.t # "arr" => result.v.findings = <<>>
            /\ response.status = 200
            /\ response.body.summary = summary.v
       /\ summary.t # "str" =>
            ParsingError(response) /\ response.body.error.message = MissingSummaryMessage

\* a reply whose findings is no array was accepted, with no findings
C16_Witness ==
  /\ ParsedLastReply /\ Succeeded
  /\ Get(AcceptedParsed, "findings").t = "str"
  /\ response.body.findings = <<>>

\* the phrases of the noise patterns, in lower case
NoisePhrases ==
  { <<"pr", "title">>, <<"pr", "description">>,
    <<"missing", "title">>, <<"missing", "description">>, <<"missing", "context">>,
    <<"lack", "of", "context">>, <<"lack", "of", "description">>,
    <<"empty", "title">>, <<"empty", "description">>,
    <<"no", "title">>, <<"no", "description">>, <<"no", "context">>,
    <<"provide", "title">>, <<"provide", "description">>,
    <<"provide", "a", "title">>, <<"provide", "a", "description">>,
    <<"provide", "clear", "title">>, <<"provide", "clear", "description">>,
    <<"provide", "a", "clear", "title">>, <<"provide", "a", "clear", "description">> }

\* title, rationale and suggestion, joined
CombinedText(f) ==
  f.title \o f.rationale \o (IF f.suggestion.t = "str" THEN f.suggestion.v ELSE <<>>)

\* the words contain the phrase, whatever their case
ContainsPhrase(ws, phrase) ==
  \E i \in 1..Len(ws) :
    /\ i + Len(phrase) - 1 <= Len(ws)
    /\ \A j \in 1..Len(phrase) : Lower(ws[i + j - 1]) = phrase[j]

IsNoise(f) == \E phrase \in NoisePhrases : ContainsPhrase(CombinedText(f), phrase)

\* C17: the findings after the noise filter are the validated findings
\* whose title, rationale and suggestion together contain none of the noise
\* phrases in any case, in their order and unchanged
C17_FilterKeepsExactlyNonNoise ==
  impl = "readme" /\ BuiltFromReply =>
    response.body.findings = SelectSeq(AcceptedFindings, LAMBDA f : ~IsNoise(f))

\* a noise finding was removed and the finding after it kept as it was
C17_Witness ==
  /\ impl = "readme" /\ BuiltFromReply
  /\ Len(AcceptedFindings) = 2
  /\ IsNoise(AcceptedFindings[1])
  /\ response.body.findings = <<AcceptedFindings[2]>>

HasReport == Succeeded /\ "commentMd" \in DOMAIN response.body

\* the three finding buckets in their order: the severities each holds and
\* the headers the revisions give it
BucketSeverities == <<{"high"}, {"medium"}, {"low", "nit"}>>
BucketHeaders ==
  << {"Must Fix (Blocking)", "Blocking"},
     {"Should Fix (Recommended)", "Should Fix"},
     {"Nice to Have (Optional)", "Optional"} >>

\* where the report has the header of bucket r
HeaderAt(md, r) == {i \in 1..Len(md) : md[i].k = "bucket" /\ md[i].name \in BucketHeaders[r]}

\* C18: the report has at most one header per finding bucket, in the order
\* high, medium, low+nit; a header is there iff its bucket has a finding;
\* under it come the bullets of the findings of its severities, one each, in
\* input order; the bullets are as many as the findings
C18_ReportBuckets ==
  HasReport =>
    LET md == response.body.commentMd
        findings == response.body.findings
    IN /\ \A r \in 1..3 :
            LET fs == SelectSeq(findings, LAMBDA f : f.severity \in BucketSeverities[r])
            IN /\ Cardinality(HeaderAt(md, r)) <= 1
               /\ HeaderAt(md, r) # {} <=> Len(fs) > 0
               /\ \A h \in HeaderAt(md, r) :
                    /\ \A j \in 1..Len(fs) :
                         /\ md[h + j].k = "bullet"
                         /\ md[h + j].title = fs[j].title
                         /\ md[h + j].rationale = fs[j].rationale
                    /\ md[h + Len(fs) + 1].k # "bullet"
       /\ \A r1, r2 \in 1..3 :
            r1 < r2 => \A i \in HeaderAt(md, r1) : \A j \in HeaderAt(md, r2) : i < j
       /\ Len(Bullets(md)) = Len(findings)

\* a low or nit finding given before a medium one: two buckets, medium first
C18_Witness ==
  /\ HasReport
  /\ Len(response.body.findings) = 2
  /\ response.body.findings[1].severity \in {"low", "nit"}
  /\ response.body.findings[2].severity = "medium"
  /\ HeaderAt(response.body.commentMd, 1) = {}
  /\ HeaderAt(response.body.commentMd, 2) # {}
  /\ HeaderAt(response.body.commentMd, 3) # {}

\* the body without its reviewId
SansReviewId(b) == [k \in DOMAIN b \ {"reviewId"} |-> b[k]]

\* C19: a request submitted again, with the inference calls ending as
\* before, ends as before: the same status, the same error, and on success
\* the same summary, findings, recommendation, meta and commentMd; only the
\* reviewId may differ
C19_Determinism ==
  Done /\ submits > 1 =>
    /\ response.status = prev.status
    /\ response.body.ok = prev.body.ok
    /\ SansReviewId(response.body) = SansReviewId(prev.body)

\* a review built from the retry's reply, given twice under two review ids
C19_Witness ==
  /\ Succeeded /\ submits = 2 /\ Len(replies) = 2
  /\ response.body.reviewId # prev.body.reviewId
  /\ response.body.commentMd = prev.body.commentMd

\* a ReviewResponse, or an ErrorResponse {ok: false, error}
IsReviewResponse(r) ==
  /\ r.status = 200
  /\ {"ok", "reviewId", "summary", "findings", "meta"} \subseteq DOMAIN r.body
  /\ r.body.ok = TRUE
IsErrorResponse(r) ==
  /\ r.status \in {400, 401, 500}
  /\ DOMAIN r.body = {"ok", "error"}
  /\ r.body.ok = FALSE

\* C20: when every inference call settles, every request ends; it ends with
\* one response, a ReviewResponse or an ErrorResponse, given when the handler
\* ends and not before; after the response nothing is done for the request
C20_EveryRequestCompletes ==
  /\ (pc # "done") ~> (pc = "done")
  /\ [](pc = "done" => IsReviewResponse(response) \/ IsErrorResponse(response))
  /\ [](pc # "done" => response = NoResponse)
  /\ [][pc = "done" => pc' = "start" /\ submits' = submits + 1]_vars

\* the retry call failed and the request ended with an ErrorResponse
C20_Witness ==
  /\ Done /\ Len(replies) = 2 /\ replies[2].k = "throw"
  /\ IsErrorResponse(response)

UnexpectedFormatMessage == "Unexpected AI response format"

\* the text leaves of the content blocks of an output array, in order
TextLeaves(output) ==
  IF output.t = "arr" THEN OutputChunks(output.v, 1) ELSE <<>>

\* the envelope shapes in their order, the first match wins
ExpectedText(r) ==
  IF r.t = "str" THEN Ok(r.v)
  ELSE IF r.t = "obj" /\ "response" \in DOMAIN r.v THEN Ok(JsString(r.v["response"]))
  ELSE IF r.t = "obj" /\ "output_text" \in DOMAIN r.v THEN Ok(JsString(r.v["output_text"]))
  ELSE IF r.t = "obj" /\ "output" \in DOMAIN r.v /\ TextLeaves(r.v["output"]) # <<>>
  THEN Ok(JoinLines(TextLeaves(r.v["output"])))
  ELSE Err(UnexpectedFormatMessage)

\* getAiResponseText follows the order of the shapes on every reply
EnvelopeOrderHolds ==
  impl = "readme" =>
    \A i \in 1..Len(replies) :
      replies[i].k = "return" => getAiResponseText(replies[i].v) = ExpectedText(replies[i].v)

\* C21: getAiResponseText tries a bare string, a response field, an
\* output_text field and the text leaves of an output array, in this order,
\* and the first match gives the text; a reply of no such shape fails with
\* the unexpected-response-format error, which ends the request as an AI
\* failure
C21_EnvelopeShapes ==
  /\ EnvelopeOrderHolds
  /\ \A i \in 1..Len(replies) :
       /\ impl = "readme"
       /\ replies[i].k = "return"
       /\ ~ExpectedText(replies[i].v).ok
       => /\ Len(calls) = i
          /\ Done => AiFailure(response) /\ response.body.error.message = UnexpectedFormatMessage

\* every changed line among the lines is blank or a comment
OnlyBlankOrComment(lines) ==
  \A i \in 1..Len(lines) : IsChangedLine(lines[i]) => IsBlankOrComment(lines[i])

\* the lines of the first MAX_DIFF_LENGTH characters of the submitted diff
KeptLines == TSplitLines(TSliceTo(SubmittedDiff, MAX_DIFF_LENGTH))

\* C22: a diff longer than the bound whose first MAX_DIFF_LENGTH characters
\* hold only blank or comment changed lines gets the canned approve response
\* with meta.truncatedDiff true and no inference call, whatever the cut tail
C22_TrivialAfterTruncation ==
  /\ impl = "readme"
  /\ HasReviewReq
  /\ TLen(SubmittedDiff) > MAX_DIFF_LENGTH
  /\ OnlyBlankOrComment(KeptLines)
  => /\ Done
     /\ calls = <<>>
     /\ response.status = 200
     /\ response.body.summary = TrivialSummary
     /\ response.body.findings = <<>>
     /\ response.body.recommendation = "approve"
     /\ response.body.meta.truncatedDiff = TRUE

\* the cut tail holds a substantive changed line and the verdict is the canned one
C22_Witness ==
  /\ impl = "readme" /\ Done /\ calls = <<>>
  /\ classified = "trivial"
  /\ response.body.meta.truncatedDiff = TRUE
  /\ ~OnlyBlankOrComment(TSplitLines(SubmittedDiff))

\* the report has the header of bucket r
HasBucket(md, r) == HeaderAt(md, r) # {}

\* the path a successful response came by
ViaTrivialBypass == Succeeded /\ Len(calls) = 0
ViaFirstAttempt == Succeeded /\ Len(calls) = 1
ViaRetry == Succeeded /\ Len(calls) = 2

\* C23: in a successful response with a report, the report has the blocking
\* bucket iff the recommendation is request_changes, has neither the blocking
\* nor the should-fix bucket when the recommendation is approve; on the
\* bypass, first-attempt and retry paths alike
C23_ReportAgreesWithVerdict ==
  HasReport /\ HasRecommendation =>
    LET md == response.body.commentMd
        rec == response.body.recommendation
    IN /\ ViaTrivialBypass \/ ViaFirstAttempt \/ ViaRetry
       /\ HasBucket(md, 1) <=> rec = "request_changes"
       /\ rec = "approve" => ~HasBucket(md, 1) /\ ~HasBucket(md, 2)

\* on the retry path validation kept a high finding that the filter removed:
\* the verdict is approve and the report has no blocking bucket
C23_Witness ==
  /\ impl = "readme" /\ HasReport /\ ViaRetry
  /\ HasSeverity(AcceptedFindings, "high")
  /\ response.body.recommendation = "approve"
  /\ ~HasBucket(response.body.commentMd, 1)
  /\ ~HasBucket(response.body.commentMd, 2)

====
